---- MODULE Spec2Model ----
(***************************************************************************)
(* A model of the picar plugin (src/src/index.ts): the four tag-store      *)
(* commands acting on the two tables, and the {pict} template resolver     *)
(* with its candidate listing and its cache file.                          *)
(*                                                                         *)
(* Strings the code inspects character by character (command arguments,    *)
(* page numbers, templates) are sequences of one-character strings.        *)
(* A JavaScript value that may be undefined is a record: Undefined or      *)
(* Str(s).                                                                 *)
(***************************************************************************)
EXTENDS Integers, Sequences, FiniteSets, TLC

VARIABLES
    picar_images,   \* the rows of table picar_images, in insertion order
    picar_tags,     \* the rows of table picar_tags, in insertion order
    clock,          \* the time new Date() returned last; it has advanced
                    \* by the next batch
    config,         \* the one configured ConfigItem
    cacheFile,      \* the file data/<basename(url)>: absent, or its content
    pc,             \* per invocation in flight: where its handler is suspended
    loc,            \* per invocation in flight: the handler's local variables
    last            \* the invocation that ended in the last step, if one did:
                    \* its inputs, what it did and its outcome

vars == <<picar_images, picar_tags, clock, config, cacheFile, pc, loc, last>>

-----------------------------------------------------------------------------
(* Bounds of the model *)

NumProcs == 2
MaxRows == 3
MaxPageRows == 25
MaxPieces == 4

Procs == 1..NumProcs

-----------------------------------------------------------------------------
(* JavaScript values and string helpers *)

Undefined == [t |-> "undefined"]

Str(s) == [t |-> "string", s |-> s]

Min(a, b) == IF a < b THEN a ELSE b

Max(a, b) == IF a > b THEN a ELSE b

IsSpace(c) == c \in {" ", "\t"}

RECURSIVE TrimLeft(_)
TrimLeft(s) == IF s # <<>> /\ IsSpace(Head(s)) THEN TrimLeft(Tail(s)) ELSE s

RECURSIVE TrimRight(_)
TrimRight(s) ==
    IF s # <<>> /\ IsSpace(s[Len(s)]) THEN TrimRight(SubSeq(s, 1, Len(s) - 1)) ELSE s

Trim(s) == TrimRight(TrimLeft(s))

StartsWith(s, prefix) ==
    Len(s) >= Len(prefix) /\ SubSeq(s, 1, Len(prefix)) = prefix

\* !v for a value that is undefined or a string
Falsy(v) == v = Undefined \/ v.s = <<>>

Digits == <<"0", "1", "2", "3", "4", "5", "6", "7", "8", "9">>

IsDigit(c) == \E d \in 1..10 : Digits[d] = c

DigitVal(c) == (CHOOSE d \in 1..10 : Digits[d] = c) - 1

RECURSIVE DigitPrefix(_, _)
\* the value of the longest prefix of digits of s, continuing from acc
DigitPrefix(s, acc) ==
    IF s # <<>> /\ IsDigit(Head(s))
    THEN DigitPrefix(Tail(s), 10 * acc + DigitVal(Head(s)))
    ELSE acc

NaN == [nan |-> TRUE]

Num(n) == [nan |-> FALSE, v |-> n]

\* parseInt(v): leading whitespace skipped, an optional sign, then the longest
\* run of digits; NaN when there is none (undefined reads as "undefined")
ParseInt(v) ==
    IF v = Undefined THEN NaN
    ELSE LET s0 == TrimLeft(v.s)
             neg == s0 # <<>> /\ Head(s0) = "-"
             s1 == IF s0 # <<>> /\ Head(s0) \in {"-", "+"} THEN Tail(s0) ELSE s0
         IN  IF s1 = <<>> \/ ~IsDigit(Head(s1)) THEN NaN
             ELSE Num(IF neg THEN 0 - DigitPrefix(s1, 0) ELSE DigitPrefix(s1, 0))

RECURSIVE AllDigits(_)
AllDigits(s) == s = <<>> \/ (IsDigit(Head(s)) /\ AllDigits(Tail(s)))

\* Number(v) for a string: whitespace trimmed, "" is 0, decimal digits only
ToNumber(v) ==
    IF v = Undefined THEN NaN
    ELSE LET s == Trim(v.s)
         IN  IF AllDigits(s) THEN Num(DigitPrefix(s, 0)) ELSE NaN

\* x || d for a number x
NumOr(x, d) == IF x.nan \/ x.v = 0 THEN d ELSE x.v

\* Array.prototype.slice(start, end) for 0 <= start <= end
Slice(arr, start, end) == SubSeq(arr, start + 1, Min(end, Len(arr)))

\* Math.ceil(a / b) for a >= 0, b > 0
CeilDiv(a, b) == (a + b - 1) \div b

Range(s) == {s[i] : i \in 1..Len(s)}

-----------------------------------------------------------------------------
(* The persistence layer: ctx.database over the two tables *)

\* ctx.database.get(table, condition): the rows matching the filter, in order
DbGet(table, condition) ==
    SelectSeq(table, LAMBDA row : ~condition.filtered \/ row.tag = condition.tag)

NoFilter == [filtered |-> FALSE]

ByTag(tag) == [filtered |-> TRUE, tag |-> tag]

\* picar_tags.tag is declared unique: a second row with the tag is refused
UniqueViolation(tag) == DbGet(picar_tags, ByTag(tag)) # <<>>

\* the tag table as it would be with the create left out
DbCreateTagSkipped(tag) == picar_tags

\* ctx.database.create(picar_tags, {tag}): the table with the new row (autoInc id)
DbCreateTag(tag) == Append(picar_tags, [id |-> Len(picar_tags) + 1, tag |-> tag])

\* one row of the upsert of line 221
ImageRow(tag, url, uploader, uploaderId, uploadTime) ==
    [tag |-> tag, img_url |-> url, uploader |-> uploader,
     uploaderId |-> uploaderId, upload_time |-> uploadTime]

\* the rows as they would be with the time read anew for every row
ImageRowsTimePerRow(imgs, tag, uploader, uploaderId, uploadTime) ==
    [i \in 1..Len(imgs) |->
        ImageRow(tag, imgs[i], uploader, uploaderId, uploadTime + i - 1)]

\* imgs.map(url => ({...})): every row carries the one uploadTime
ImageRows(imgs, tag, uploader, uploaderId, uploadTime) ==
    [i \in 1..Len(imgs) |-> ImageRow(tag, imgs[i], uploader, uploaderId, uploadTime)]

\* ctx.database.upsert(picar_images, rows) of rows without a primary key:
\* each is inserted with the next auto-increment id
DbUpsertImages(rows) ==
    picar_images \o
        [i \in 1..Len(rows) |->
            [id |-> Len(picar_images) + i, tag |-> rows[i].tag,
             img_url |-> rows[i].img_url, uploader |-> rows[i].uploader,
             uploaderId |-> rows[i].uploaderId, upload_time |-> rows[i].upload_time]]

-----------------------------------------------------------------------------
(* Inputs of the tag-store commands *)

ArgInputs ==
    {Undefined, Str(<<>>), Str(<<" ">>), Str(<<"<", "a", ">">>),
     Str(<<"a">>), Str(<<"b">>)}

PageInputs ==
    {Undefined, Str(<<"x">>), Str(<<"0">>), Str(<<"-", "1">>),
     Str(<<"1">>), Str(<<"2">>), Str(<<"3">>), Str(<<"4">>), Str(<<"2", "x">>)}

ImgEl(src) == [type |-> "img", src |-> src]

TextEl == [type |-> "text", src |-> ""]

NoQuote == [present |-> FALSE, elements |-> <<>>]

Quote(els) == [present |-> TRUE, elements |-> els]

\* session.username, session.userId, session.quote, session.elements
Session(username, userId, quote, elements) ==
    [username |-> username, userId |-> userId, quote |-> quote, elements |-> elements]

Sessions ==
    {Session("al", Str(<<"7">>), Quote(<<TextEl>>), <<TextEl>>),
     Session("al", Str(<<"7">>), NoQuote, <<ImgEl("u2")>>),
     Session("", Str(<<"x">>), Quote(<<ImgEl("u1")>>), <<TextEl>>),
     Session("", Str(<<"x">>), Quote(<<TextEl, ImgEl("u1")>>),
             <<ImgEl("u2"), TextEl, ImgEl("u1")>>)}

-----------------------------------------------------------------------------
(* The tag-store commands *)

\* the check as it would be without the test for a leading '<'
ArgMissingWithoutPlaceholder(arg1) == Falsy(arg1) \/ Trim(arg1.s) = <<>>

\* lines 122 and 185: the argument counts as missing
ArgMissing(arg1) ==
    Falsy(arg1) \/ Trim(arg1.s) = <<>> \/ StartsWith(arg1.s, <<"<">>)

\* line 105: the filter of the random command
RandomCondition(arg1) ==
    IF ~Falsy(arg1) /\ Trim(arg1.s) # <<>> /\ ~StartsWith(arg1.s, <<"<">>)
    THEN ByTag(arg1.s)
    ELSE NoFilter

pageSize == 10

\* line 132
PageNum(page) == Max(1, NumOr(ParseInt(page), 1))

\* the page count as it would be rounded down
TotalPagesFloor(rows) == Len(rows) \div pageSize

\* line 133
TotalPages(rows) == CeilDiv(Len(rows), pageSize)

\* lines 139-141
PaginatedRows(rows, pageNum) ==
    Slice(rows, (pageNum - 1) * pageSize, (pageNum - 1) * pageSize + pageSize)

ImgUrls(rows) == [i \in 1..Len(rows) |-> rows[i].img_url]

ImgSrcs(elements) ==
    LET found == SelectSeq(elements, LAMBDA element : element.type = "img")
    IN  [i \in 1..Len(found) |-> found[i].src]

\* lines 190-204: the quoted message's images, then the invoking message's
CollectImgs(session) ==
    (IF session.quote.present THEN ImgSrcs(session.quote.elements) ELSE <<>>)
        \o ImgSrcs(session.elements)

\* line 218
Uploader(session) == IF session.username = "" THEN "unknown" ELSE session.username

\* line 219
UploaderId(session) == NumOr(ToNumber(session.userId), 0)

NoLoc == [cmd |-> "none"]

Idle(p) == pc[p] = "idle"

NoLast == [cmd |-> "none"]

\* the handler of p ends: its locals are gone, its inputs and outcome are
\* recorded as the invocation that ended in this step
Finish(p, record) ==
    /\ pc' = [pc EXCEPT ![p] = "idle"]
    /\ loc' = [loc EXCEPT ![p] = NoLoc]
    /\ last' = record

\* the handler of p is suspended at `at`: no invocation ended in this step
Suspend(p, at, l) ==
    /\ pc' = [pc EXCEPT ![p] = at]
    /\ loc' = [loc EXCEPT ![p] = l]
    /\ last' = NoLast

\* lines 103-118
Random(p, args) ==
    /\ Idle(p)
    /\ \E arg1 \in args :
        LET condition == RandomCondition(arg1)
            rows == DbGet(picar_images, condition)
            l == [cmd |-> "random", arg1 |-> arg1, condition |-> condition,
                  dbCalls |-> 1]
        IN  IF Len(rows) = 0
            THEN Finish(p, l @@ [ret |-> [kind |-> "noimages"]])
            ELSE \E randomIndex \in 1..Len(rows) :
                    Finish(p, l @@ [ret |-> [kind |-> "image", row |-> rows[randomIndex]]])
    /\ UNCHANGED <<picar_images, picar_tags, clock, config, cacheFile>>

\* lines 120-160
Look(p, args, pages) ==
    /\ Idle(p)
    /\ \E arg1 \in args, page \in pages :
        IF ArgMissing(arg1)
        THEN Finish(p, [cmd |-> "look", arg1 |-> arg1, page |-> page, dbCalls |-> 0,
                        ret |-> [kind |-> "usage"]])
        ELSE LET rows == DbGet(picar_images, ByTag(arg1.s))
                 pageNum == PageNum(page)
                 totalPages == TotalPages(rows)
                 l == [cmd |-> "look", arg1 |-> arg1, page |-> page, dbCalls |-> 1,
                       rows |-> rows]
             IN  IF Len(rows) = 0
                 THEN Finish(p, l @@ [ret |-> [kind |-> "notagimages"]])
                 ELSE IF pageNum > totalPages
                 THEN Finish(p, l @@ [ret |-> [kind |-> "outofrange", pageNum |-> pageNum,
                                               totalPages |-> totalPages]])
                 ELSE Finish(p, l @@
                        [ret |-> [kind |-> "forward",
                                  images |-> ImgUrls(PaginatedRows(rows, pageNum)),
                                  pageNum |-> pageNum, totalPages |-> totalPages,
                                  total |-> Len(rows),
                                  nextPage |-> IF pageNum < totalPages
                                               THEN pageNum + 1 ELSE 0]])
    /\ UNCHANGED <<picar_images, picar_tags, clock, config, cacheFile>>

RECURSIVE Distinct(_)
\* the iteration order of a Set filled from s: first occurrences, in order
Distinct(s) ==
    IF s = <<>> THEN <<>>
    ELSE LET init == Distinct(SubSeq(s, 1, Len(s) - 1))
         IN  IF s[Len(s)] \in Range(init) THEN init ELSE Append(init, s[Len(s)])

\* lines 162-181
List(p) ==
    /\ Idle(p)
    /\ LET rows == DbGet(picar_tags, NoFilter)
       IN  IF Len(rows) = 0
           THEN Finish(p, [cmd |-> "list", dbCalls |-> 1, ret |-> [kind |-> "notags"]])
           ELSE Finish(p, [cmd |-> "list", dbCalls |-> 1,
                           ret |-> [kind |-> "taglist",
                                    tags |-> Distinct([i \in 1..Len(rows) |-> rows[i].tag])]])
    /\ UNCHANGED <<picar_images, picar_tags, clock, config, cacheFile>>

\* lines 183-215 up to the answer of ctx.database.get(picar_tags, {tag: arg1})
AddCheck(p, args, sessions) ==
    /\ Idle(p)
    /\ \E arg1 \in args, session \in sessions :
        LET imgs == CollectImgs(session)
            existingTags == DbGet(picar_tags, ByTag(arg1.s))
            l == [cmd |-> "add", arg1 |-> arg1, session |-> session, imgs |-> imgs,
                  dbCalls |-> 0, tagIds |-> {}, imgIds |-> {}]
        IN  IF ArgMissing(arg1)
            THEN Finish(p, l @@ [ret |-> [kind |-> "usage"]])
            ELSE IF Len(imgs) = 0
            THEN Finish(p, l @@ [ret |-> [kind |-> "noimgs"]])
            ELSE /\ Len(picar_images) + Len(imgs) <= MaxRows
                 /\ Suspend(p, IF Len(existingTags) = 0 THEN "add_create" ELSE "add_upsert",
                            [l EXCEPT !.dbCalls = 1] @@ [tagSeen |-> Len(existingTags) # 0])
    /\ UNCHANGED <<picar_images, picar_tags, clock, config, cacheFile>>

\* line 213: ctx.database.create(picar_tags, {tag: arg1}); a refused row is an
\* exception the handler does not catch
AddCreate(p) ==
    /\ pc[p] = "add_create"
    /\ IF UniqueViolation(loc[p].arg1.s)
       THEN /\ Finish(p, [loc[p] EXCEPT !.dbCalls = @ + 1]
                            @@ [ret |-> [kind |-> "thrown", by |-> "unique"]])
            /\ UNCHANGED picar_tags
       ELSE /\ picar_tags' = DbCreateTag(loc[p].arg1.s)
            /\ Suspend(p, "add_upsert",
                       [loc[p] EXCEPT !.dbCalls = @ + 1, !.tagIds = {Len(picar_tags) + 1}])
    /\ UNCHANGED <<picar_images, clock, config, cacheFile>>

\* lines 218-230: the batch of image rows and the reply
AddUpsert(p) ==
    /\ pc[p] = "add_upsert"
    /\ LET l == loc[p]
           uploadTime == clock + 1      \* line 220: new Date(), read once
           rows == ImageRows(l.imgs, l.arg1.s, Uploader(l.session),
                             UploaderId(l.session), uploadTime)
       IN  /\ clock' = uploadTime
           /\ picar_images' = DbUpsertImages(rows)
           /\ Finish(p, [l EXCEPT !.dbCalls = @ + 1,
                                  !.imgIds = {Len(picar_images) + i : i \in 1..Len(rows)}]
                           @@ [ret |-> [kind |-> "added", tag |-> l.arg1.s,
                                        count |-> Len(l.imgs)]])
    /\ UNCHANGED <<picar_tags, config, cacheFile>>

\* a create or upsert of the persistence layer rejects: the handler does not
\* catch it (lines 213, 221)
DbReject(p) ==
    /\ pc[p] \in {"add_create", "add_upsert"}
    /\ Finish(p, [loc[p] EXCEPT !.dbCalls = @ + 1]
                    @@ [ret |-> [kind |-> "thrown", by |-> "database"]])
    /\ UNCHANGED <<picar_images, picar_tags, clock, config, cacheFile>>

\* the first ctx.database.get of a command rejects (lines 109, 126, 164, 211)
DbRejectGet(p) ==
    /\ Idle(p)
    /\ \E command \in {"random", "look", "list", "add"} :
        Finish(p, [cmd |-> command, dbCalls |-> 1,
                   ret |-> [kind |-> "thrown", by |-> "database"]])
    /\ UNCHANGED <<picar_images, picar_tags, clock, config, cacheFile>>

-----------------------------------------------------------------------------
(* The placeholder resolver: strings *)

\* A path, a URL and an inline image are sequences of pieces: single characters
\* where the code inspects characters, whole literals elsewhere.

Pattern == <<"{", "p", "i", "c", "t", "}">>

OccursAt(s, i) == i + Len(Pattern) - 1 <= Len(s) /\ SubSeq(s, i, i + Len(Pattern) - 1) = Pattern

RECURSIVE MatchesFrom(_, _)
\* the start positions of the matches of /{pict}/g from position i on
MatchesFrom(s, i) ==
    IF i > Len(s) THEN <<>>
    ELSE IF OccursAt(s, i) THEN <<i>> \o MatchesFrom(s, i + Len(Pattern))
    ELSE MatchesFrom(s, i + 1)

\* line 303: template.matchAll(/{pict}/g)
MatchAll(template) == MatchesFrom(template, 1)

RECURSIVE IndexFrom(_, _)
\* the first position >= i where {pict} occurs in s, 0 when there is none
IndexFrom(s, i) ==
    IF i > Len(s) THEN 0
    ELSE IF OccursAt(s, i) THEN i
    ELSE IndexFrom(s, i + 1)

\* result.replace(pattern, content) with a string pattern: the first occurrence
\* in result, wherever it is (no content of the model holds a '$')
ReplaceFirst(result, content) ==
    LET i == IndexFrom(result, 1)
    IN  IF i = 0 THEN result
        ELSE SubSeq(result, 1, i - 1) \o content
                \o SubSeq(result, i + Len(Pattern), Len(result))

RECURSIVE Reduce(_, _)
\* line 339: replacements.reduce((result, {pattern, content}) => ..., template)
Reduce(contents, template) ==
    IF contents = <<>> THEN template
    ELSE Reduce(Tail(contents), ReplaceFirst(template, Head(contents)))

Base64Alphabet ==
    <<"A", "B", "C", "D", "E", "F", "G", "H", "I", "J", "K", "L", "M", "N", "O", "P",
      "Q", "R", "S", "T", "U", "V", "W", "X", "Y", "Z", "a", "b", "c", "d", "e", "f",
      "g", "h", "i", "j", "k", "l", "m", "n", "o", "p", "q", "r", "s", "t", "u", "v",
      "w", "x", "y", "z", "0", "1", "2", "3", "4", "5", "6", "7", "8", "9", "+", "/">>

RECURSIVE Base64(_)
\* buffer.toString('base64'): three bytes to four characters, '=' padding
Base64(bytes) ==
    IF bytes = <<>> THEN <<>>
    ELSE LET n == Len(bytes)
             b2 == IF n >= 2 THEN bytes[2] ELSE 0
             b3 == IF n >= 3 THEN bytes[3] ELSE 0
             v == bytes[1] * 65536 + b2 * 256 + b3
         IN  <<Base64Alphabet[(v \div 262144) + 1],
               Base64Alphabet[((v \div 4096) % 64) + 1],
               IF n >= 2 THEN Base64Alphabet[((v \div 64) % 64) + 1] ELSE "=",
               IF n >= 3 THEN Base64Alphabet[(v % 64) + 1] ELSE "=">>
                 \o (IF n > 3 THEN Base64(SubSeq(bytes, 4, n)) ELSE <<>>)

\* line 332
InlineImage(buffer, mime) ==
    <<"<image src=\"base64://">> \o Base64(buffer) \o <<"\" type=\"", mime, "\"/>">>

StartsWithScheme(s) == s # <<>> /\ s[1] \in {"http://", "https://"}

\* toLowerCase() of an extension piece
Lower(piece) ==
    CASE piece = "PNG" -> "png"
      [] piece = "GIF" -> "gif"
      [] piece = "JPG" -> "jpg"
      [] piece = "WEBP" -> "webp"
      [] OTHER -> piece

LastDot(s) == IF "." \in Range(s) THEN CHOOSE k \in 1..Len(s) :
                    s[k] = "." /\ \A j \in (k + 1)..Len(s) : s[j] # "." ELSE 0

\* line 319: candidate.split('.').pop()?.toLowerCase() || 'jpg'
RemoteExt(candidate) ==
    LET tail == SubSeq(candidate, LastDot(candidate) + 1, Len(candidate))
    IN  IF tail = <<>> THEN "jpg"
        ELSE IF Len(tail) = 1 THEN Lower(tail[1])
        ELSE "other"

\* line 327: extname(candidate).slice(1).toLowerCase()
LocalExt(candidate) ==
    LET tail == IF LastDot(candidate) = 0 THEN <<>>
                ELSE SubSeq(candidate, LastDot(candidate) + 1, Len(candidate))
    IN  IF Len(tail) = 1 THEN Lower(tail[1]) ELSE ""

\* line 320
RemoteMime(ext) ==
    IF ext = "png" THEN "image/png" ELSE IF ext = "gif" THEN "image/gif" ELSE "image/jpeg"

\* lines 328-330
LocalMime(ext) ==
    IF ext = "png" THEN "image/png"
    ELSE IF ext = "gif" THEN "image/gif"
    ELSE IF ext = "webp" THEN "image/webp" ELSE "image/jpeg"

-----------------------------------------------------------------------------
(* The placeholder resolver: candidate listing and substitution *)

LocalDir == <<"pics">>

RemoteUrl == <<"https://", "h/", "list", ".", "json">>

baseDir == <<"/cwd">>

\* resolve(baseDir, ...) of relative pieces; an absolute path stays as it is
Resolve(parts) == IF parts # <<>> /\ parts[1] = "/" THEN parts ELSE baseDir \o <<"/">> \o parts

\* line 257: file.isFile() && /\.(jpe?g|png|gif|webp)$/i.test(file.name)
IsImageFile(file) ==
    /\ file.isFile
    /\ Len(file.name) >= 2
    /\ file.name[Len(file.name) - 1] = "."
    /\ Lower(file.name[Len(file.name)]) \in {"jpg", "jpeg", "png", "gif", "webp"}

\* lines 256-258
ImageFiles(files, dirPath) ==
    LET kept == SelectSeq(files, IsImageFile)
    IN  [i \in 1..Len(kept) |-> Str(dirPath \o <<"/">> \o kept[i].name)]

File(name) == [name |-> name, isFile |-> TRUE]

Dir(name) == [name |-> name, isFile |-> FALSE]

\* what fs.readdir may answer for the configured directory
DirListings ==
    {<<>>,
     <<File(<<"a", ".", "PNG">>), File(<<"notes", ".", "txt">>), Dir(<<"sub", ".", "gif">>),
       File(<<"b", ".", "webp">>)>>}

DocArray(elems) == [kind |-> "array", elems |-> elems]

DocObject == [kind |-> "object"]

DocInvalid == [kind |-> "invalid"]

\* the text a writeFile in progress, or one that failed, leaves in the file
DocTruncated == [kind |-> "truncated"]

NotAString == [t |-> "number"]

\* what the server of the JSON document may answer with status 2xx
Bodies ==
    {DocArray(<<Str(<<"https://", "i/1", ".", "PNG">>), NotAString>>),
     DocArray(<<>>), DocObject, DocInvalid}

\* lines 285-286: JSON.parse of the file's text, [] unless it is an array; an
\* exception when the text is no JSON
ParseLinks(doc) ==
    IF doc.kind = "array" THEN [thrown |-> FALSE, arr |-> doc.elems]
    ELSE IF doc.kind = "object" THEN [thrown |-> FALSE, arr |-> <<>>]
    ELSE [thrown |-> TRUE, arr |-> <<>>]

Buffers == {<<123>>, <<137, 80, 78, 71, 13>>}

IoFailed == [ok |-> FALSE]

IoRead(buffer) == [ok |-> TRUE, buffer |-> buffer]

\* lines 307-337: the content of one occurrence, for the candidate drawn and
\* the outcome of its fetch or read
Content(arr, k, io) ==
    IF arr = <<>> THEN <<>>
    ELSE LET candidate == arr[k]
         IN  IF candidate.t # "string" THEN <<>>
             ELSE IF ~io.ok THEN <<>>
             ELSE IF StartsWithScheme(candidate.s)
             THEN InlineImage(io.buffer, RemoteMime(RemoteExt(candidate.s)))
             ELSE InlineImage(io.buffer, LocalMime(LocalExt(candidate.s)))

\* the check as it would be if it looked at a path other than the one written
ExistsSyncWrongPath == FALSE

\* line 271: existsSync(filePath)
ExistsSync == cacheFile.exists

\* lines 302-305 and 241-275: the matches, then getPixivLinks up to its first
\* suspension; the GET of the JSON document is issued when existsSync is false
ResolveStart(p) ==
    /\ Idle(p)
    /\ LET matches == MatchAll(config.template)
           l == [cmd |-> "config", matches |-> matches, sawCache |-> FALSE,
                 gets |-> 0, writes |-> 0, failed |-> "none", body |-> DocInvalid,
                 readDoc |-> DocInvalid, arr |-> <<>>]
       IN  IF matches = <<>>
           THEN Finish(p, l @@ [ret |-> [kind |-> "text", text |-> config.template],
                                contents |-> <<>>])
           ELSE IF config.url = <<>> THEN Suspend(p, "images", l)
           ELSE IF ~StartsWithScheme(config.url) THEN Suspend(p, "readdir", l)
           ELSE IF ExistsSync
           THEN Suspend(p, "read", [l EXCEPT !.sawCache = TRUE])
           ELSE Suspend(p, "fetch", [l EXCEPT !.gets = 1])
    /\ UNCHANGED <<picar_images, picar_tags, clock, config, cacheFile>>

\* lines 249-263
ReadDir(p) ==
    /\ pc[p] = "readdir"
    /\ \/ Suspend(p, "images", [loc[p] EXCEPT !.failed = "readdir"])
       \/ \E files \in DirListings :
            Suspend(p, "images",
                    [loc[p] EXCEPT !.arr = ImageFiles(files, Resolve(config.url))])
    /\ UNCHANGED <<picar_images, picar_tags, clock, config, cacheFile>>

\* lines 275-278: the answer to the GET and res.text(); an abort, an exception,
\* a status that is not 2xx or a body that cannot be read end in the catch of
\* line 279
Fetch(p) ==
    /\ pc[p] = "fetch"
    /\ \/ Suspend(p, "images", [loc[p] EXCEPT !.failed = "fetch"])
       \/ \E body \in Bodies : Suspend(p, "open", [loc[p] EXCEPT !.body = body])
    /\ UNCHANGED <<picar_images, picar_tags, clock, config, cacheFile>>

\* line 278, writeFile opening the file for writing: the file is created or
\* truncated, or the open fails and the file is as it was
OpenFile(p) ==
    /\ pc[p] = "open"
    /\ \/ /\ Suspend(p, "images", [loc[p] EXCEPT !.failed = "open"])
          /\ UNCHANGED cacheFile
       \/ /\ Suspend(p, "write", loc[p])
          /\ cacheFile' = [cacheFile EXCEPT !.exists = TRUE, !.doc = DocTruncated]
    /\ UNCHANGED <<picar_images, picar_tags, clock, config>>

\* line 278, writeFile writing the text: all of it, or an error that leaves
\* what was written so far
WriteFile(p) ==
    /\ pc[p] = "write"
    /\ \/ /\ Suspend(p, "images", [loc[p] EXCEPT !.failed = "write"])
          /\ UNCHANGED cacheFile
       \/ /\ Suspend(p, "read", [loc[p] EXCEPT !.writes = @ + 1])
          /\ cacheFile' = [cacheFile EXCEPT !.doc = loc[p].body, !.writes = @ + 1]
    /\ UNCHANGED <<picar_images, picar_tags, clock, config>>

\* lines 284-290
ReadFile(p) ==
    /\ pc[p] = "read"
    /\ \/ Suspend(p, "images", [loc[p] EXCEPT !.failed = "read"])
       \/ Suspend(p, "images",
                  [loc[p] EXCEPT !.arr = ParseLinks(cacheFile.doc).arr,
                                 !.readDoc = cacheFile.doc,
                                 !.failed = IF ParseLinks(cacheFile.doc).thrown
                                            THEN "parse" ELSE "none"])
    /\ UNCHANGED <<picar_images, picar_tags, clock, config, cacheFile>>

\* lines 306-339: one candidate and one fetch or read per occurrence, then the
\* replacements
Images(p) ==
    /\ pc[p] = "images"
    /\ LET l == loc[p]
           n == Len(l.matches)
       IN  \E ks \in [1..n -> 1..Max(1, Len(l.arr))],
              ios \in [1..n -> IF l.arr = <<>> THEN {IoFailed}
                               ELSE {IoFailed} \cup {IoRead(b) : b \in Buffers}] :
              LET contents == [i \in 1..n |-> Content(l.arr, ks[i], ios[i])]
              IN  Finish(p, l @@ [contents |-> contents,
                                  ret |-> [kind |-> "text",
                                           text |-> Reduce(contents, config.template)]])
    /\ UNCHANGED <<picar_images, picar_tags, clock, config, cacheFile>>

-----------------------------------------------------------------------------
(* Specifications *)

\* no file data/<basename(url)> yet; writes counts the writeFile calls completed
NoFile == [exists |-> FALSE, doc |-> DocInvalid, writes |-> 0]

DefaultConfig == [command |-> "picar", url |-> <<"https://", "example.com">>,
                  template |-> <<"{", "p", "i", "c", "t", "}">>]

InitProcs ==
    /\ pc = [p \in Procs |-> "idle"]
    /\ loc = [p \in Procs |-> NoLoc]
    /\ last = NoLast

\* empty tables, as ctx.model.extend creates them
InitTag ==
    /\ picar_images = <<>>
    /\ picar_tags = <<>>
    /\ clock = 0
    /\ config = DefaultConfig
    /\ cacheFile = NoFile
    /\ InitProcs

\* the inputs of the concurrent runs: a placeholder and two concrete tags; one
\* quoted image from user al
TagArgs == {Str(<<"<", "a", ">">>), Str(<<"a">>), Str(<<"b">>)}

TagSessions == {Session("al", Str(<<"7">>), Quote(<<TextEl, ImgEl("u1")>>), <<TextEl>>)}

NextTag ==
    \E p \in Procs :
        \/ Random(p, TagArgs)
        \/ Look(p, TagArgs, {Undefined})
        \/ List(p)
        \/ AddCheck(p, TagArgs, TagSessions)
        \/ AddCreate(p)
        \/ AddUpsert(p)
        \/ DbReject(p)
        \/ DbRejectGet(p)

\* the tag-store commands, any number in flight, the persistence layer may reject
SpecTag == InitTag /\ [][NextTag]_vars

\* one invocation at a time, a persistence layer that answers every call
NextSeq ==
    \/ Random(1, ArgInputs)
    \/ Look(1, ArgInputs, {Undefined, Str(<<"2">>)})
    \/ List(1)
    \/ AddCheck(1, ArgInputs, Sessions)
    \/ AddCreate(1)
    \/ AddUpsert(1)

SpecSeq == InitTag /\ [][NextSeq]_vars

\* a table of n rows added one at a time by user al, every third one under tag b
\* when mixed
PageTable(n, mixed) ==
    [i \in 1..n |->
        [id |-> i, tag |-> IF mixed /\ i % 3 = 0 THEN <<"b">> ELSE <<"a">>,
         img_url |-> ToString(i), uploader |-> "al", uploaderId |-> 7,
         upload_time |-> i]]

TagTable(images) ==
    LET ts == Distinct([i \in 1..Len(images) |-> images[i].tag])
    IN  [i \in 1..Len(ts) |-> [id |-> i, tag |-> ts[i]]]

InitPage ==
    /\ \E n \in 0..MaxPageRows, mixed \in BOOLEAN :
        /\ picar_images = PageTable(n, mixed)
        /\ picar_tags = TagTable(PageTable(n, mixed))
        /\ clock = n
    /\ config = DefaultConfig
    /\ cacheFile = NoFile
    /\ InitProcs

NextPage == Look(1, {Str(<<"a">>), Str(<<"b">>)}, PageInputs)

\* the list command over tables of up to MaxPageRows rows
SpecPage == InitPage /\ [][NextPage]_vars

\* templates are built from these pieces
TemplatePieces == {<<"{", "p", "i">>, <<"c", "t", "}">>, Pattern, <<"x">>}

RECURSIVE TemplatesOf(_)
\* the concatenations of up to n pieces
TemplatesOf(n) ==
    IF n = 0 THEN {<<>>}
    ELSE LET shorter == TemplatesOf(n - 1)
         IN  shorter \cup {t \o piece : t \in shorter, piece \in TemplatePieces}

ResolveStep(p) ==
    \/ ResolveStart(p)
    \/ ReadDir(p)
    \/ Fetch(p)
    \/ OpenFile(p)
    \/ WriteFile(p)
    \/ ReadFile(p)
    \/ Images(p)

InitResolve(templates, urls) ==
    /\ picar_images = <<>>
    /\ picar_tags = <<>>
    /\ clock = 0
    /\ \E template \in templates, url \in urls :
            config = [command |-> "picar", url |-> url, template |-> template]
    /\ cacheFile = NoFile
    /\ InitProcs

\* one configured command, one invocation at a time, any template of up to
\* MaxPieces pieces
SpecTpl ==
    InitResolve(TemplatesOf(MaxPieces), {LocalDir, RemoteUrl}) /\ [][ResolveStep(1)]_vars

NextCache == \E p \in Procs : ResolveStep(p)

\* one configured command, any number of invocations in flight
SpecCache ==
    InitResolve({<<"x">>, Pattern, Pattern \o <<"x">> \o Pattern}, {<<>>, LocalDir, RemoteUrl})
        /\ [][NextCache]_vars

-----------------------------------------------------------------------------
(* Claims about the tag-store commands *)

\* the image elements of a message, counted without collecting them
CountImgs(elements) == Cardinality({i \in 1..Len(elements) : elements[i].type = "img"})

DetectedImgs(session) ==
    (IF session.quote.present THEN CountImgs(session.quote.elements) ELSE 0)
        + CountImgs(session.elements)

HasTagRow(table, tag) == \E i \in 1..Len(table) : table[i].tag = tag

AddedRows == SubSeq(picar_images', Len(picar_images) + 1, Len(picar_images'))

C4_Step(p) ==
    /\ (Idle(p) /\ pc'[p] = "add_create") =>
            /\ ~HasTagRow(picar_tags, loc'[p].arg1.s)
            /\ picar_tags' = picar_tags /\ picar_images' = picar_images
    /\ (Idle(p) /\ pc'[p] = "add_upsert") =>
            /\ HasTagRow(picar_tags, loc'[p].arg1.s)
            /\ picar_tags' = picar_tags /\ picar_images' = picar_images
    /\ (Idle(p) /\ pc'[p] = "idle" /\ last'.cmd = "add") =>
            /\ ArgMissing(last'.arg1) \/ DetectedImgs(last'.session) = 0
            /\ picar_tags' = picar_tags /\ picar_images' = picar_images
    /\ pc[p] = "add_create" =>
            /\ pc'[p] = "add_upsert"
            /\ Len(picar_tags') = Len(picar_tags) + 1
            /\ SubSeq(picar_tags', 1, Len(picar_tags)) = picar_tags
            /\ picar_tags'[Len(picar_tags')].tag = loc[p].arg1.s
            /\ picar_images' = picar_images
    /\ pc[p] = "add_upsert" =>
            /\ pc'[p] = "idle" /\ last'.ret.kind = "added"
            /\ picar_tags' = picar_tags
            /\ Len(picar_images') = Len(picar_images) + DetectedImgs(loc[p].session)
            /\ SubSeq(picar_images', 1, Len(picar_images)) = picar_images
            /\ \A i \in 1..Len(AddedRows) :
                    /\ AddedRows[i].tag = loc[p].arg1.s
                    /\ AddedRows[i].uploader = AddedRows[1].uploader
                    /\ AddedRows[i].uploaderId = AddedRows[1].uploaderId
                    /\ AddedRows[i].upload_time = AddedRows[1].upload_time
            /\ Cardinality({i \in 1..Len(picar_tags') :
                                picar_tags'[i].tag = loc[p].arg1.s}) = 1

\* C4: an add invocation with a valid tag and N >= 1 detected images leaves the
\* tables alone while it checks the tag, then adds exactly one tag row when the
\* tag had none (and none when it had one), then adds exactly N image rows, all
\* with that tag and with one uploader, uploaderId and upload time; an add that
\* ends at once had a missing tag or no image and changed nothing.
C4_AddCreatesOneTagRowAndNImageRows == [][C4_Step(1)]_vars

\* an add of three images (one quoted, two sent) under a new tag has ended
C4_Witness ==
    /\ last.cmd = "add" /\ last.ret.kind = "added" /\ last.ret.count = 3
    /\ ~last.tagSeen
    /\ [i \in 1..Len(picar_images) |-> picar_images[i].img_url] = <<"u1", "u2", "u1">>

\* the page a page argument asks for, input by input
ExpectedPage(page) ==
    CASE page = Str(<<"2">>) -> 2
      [] page = Str(<<"3">>) -> 3
      [] page = Str(<<"4">>) -> 4
      [] page = Str(<<"2", "x">>) -> 2
      [] OTHER -> 1

C5_WitnessOutOfRange ==
    /\ last.cmd = "look" /\ last.ret.kind = "outofrange"
    /\ last.ret.pageNum = 4 /\ last.ret.totalPages = 3

LooksMissing(arg1) ==
    \/ arg1 \in {Undefined, Str(<<>>), Str(<<" ">>)}
    \/ (arg1 # Undefined /\ arg1.s # <<>> /\ arg1.s[1] = "<")

C7_Step ==
    /\ (last'.cmd \in {"look", "add"} /\ LooksMissing(last'.arg1)) =>
            /\ last'.ret.kind = "usage"
            /\ last'.dbCalls = 0
            /\ picar_images' = picar_images /\ picar_tags' = picar_tags
    /\ (last'.cmd = "random" /\ LooksMissing(last'.arg1)) =>
            /\ last'.condition = NoFilter
            /\ last'.ret.kind = "noimages" <=> picar_images = <<>>
    /\ (last'.cmd = "random" /\ ~LooksMissing(last'.arg1)) =>
            /\ last'.ret.kind = "image" => last'.ret.row.tag = last'.arg1.s
            /\ last'.ret.kind = "noimages" <=> ~HasTagRow(picar_images, last'.arg1.s)

\* C7: an argument that begins with '<' is treated as a missing one (undefined,
\* empty, whitespace only): random queries all tags, look and add answer with
\* their usage message, query nothing and change no table; with a concrete tag
\* random only returns an image of that tag.
C7_PlaceholderArgIsMissing == [][C7_Step]_vars

\* random with the argument <a> returned an image although no row has a tag <a>
C7_Witness ==
    /\ last.cmd = "random" /\ last.arg1 = Str(<<"<", "a", ">">>)
    /\ last.ret.kind = "image"
    /\ HasTagRow(picar_images, <<"a">>) /\ HasTagRow(picar_images, <<"b">>)

\* C9: every tag on a row of picar_images has a row in picar_tags.
C9_ImageTagsHaveTagRows ==
    \A i \in 1..Len(picar_images) : HasTagRow(picar_tags, picar_images[i].tag)

\* images under two tags are stored and an invocation has just been aborted by
\* the persistence layer
C9_Witness ==
    /\ HasTagRow(picar_images, <<"a">>) /\ HasTagRow(picar_images, <<"b">>)
    /\ last.cmd = "add" /\ last.ret.kind = "thrown"

\* C10: concurrent add invocations complete without an error: none is ended by
\* the tag table refusing the tag row it creates.
C10_ConcurrentAddsComplete ==
    ~(last.cmd = "add" /\ last.ret.kind = "thrown" /\ last.ret.by = "unique")

-----------------------------------------------------------------------------
(* Claims about the placeholder resolver *)

Remote == StartsWithScheme(config.url)

\* C1: invocations one after the other, remote JSON source: a listing that
\* finds no cache file performs exactly one GET and, when the GET and the write
\* succeed, one write of the cache file, which then holds the body received; a
\* GET is only ever in flight while no cache file exists, so every listing that
\* starts with the cache file in place performs no GET and no write and parses
\* what it read from the file; over all listings at most one write completes.
C1_RemoteJsonFetchedOnce ==
    /\ pc[1] = "fetch" => ~cacheFile.exists /\ loc[1].gets = 1 /\ ~loc[1].sawCache
    /\ pc[1] \in {"open", "write"} =>
            loc[1].gets = 1 /\ loc[1].writes = 0 /\ cacheFile.writes = 0
    /\ pc[1] = "read" =>
            /\ cacheFile.exists
            /\ loc[1].sawCache => loc[1].gets = 0 /\ loc[1].writes = 0
            /\ ~loc[1].sawCache =>
                    loc[1].gets = 1 /\ loc[1].writes = 1 /\ cacheFile.doc = loc[1].body
    /\ (last.cmd = "config" /\ Remote /\ last.matches # <<>>) =>
            /\ last.sawCache =>
                    /\ last.gets = 0 /\ last.writes = 0
                    /\ last.failed # "read" => last.readDoc = cacheFile.doc
            /\ ~last.sawCache =>
                    /\ last.gets = 1
                    /\ last.writes = (IF last.failed \in {"fetch", "open", "write"}
                                       THEN 0 ELSE 1)
                    /\ last.writes = 1 => cacheFile.exists /\ cacheFile.doc = last.body
    /\ cacheFile.writes <= 1
    /\ cacheFile.writes = 1 => cacheFile.exists

\* a listing has reused the cache file written by an earlier one and got its
\* two candidates from it
C1_Witness ==
    /\ last.cmd = "config" /\ Remote
    /\ last.sawCache /\ last.gets = 0
    /\ cacheFile.writes = 1
    /\ Len(last.arr) = 2

\* C2: the JSON document is downloaded and written at most once, whatever the
\* interleaving of the invocations in flight.
C2_DownloadedAtMostOnce == cacheFile.writes <= 1

RECURSIVE SpliceFrom(_, _, _, _, _)
\* template from position i on, with the k-th and later occurrences replaced
\* where they stand
SpliceFrom(template, matches, contents, i, k) ==
    IF i > Len(template) THEN <<>>
    ELSE IF k <= Len(matches) /\ matches[k] = i
    THEN contents[k] \o SpliceFrom(template, matches, contents, i + Len(Pattern), k + 1)
    ELSE <<template[i]>> \o SpliceFrom(template, matches, contents, i + 1, k)

Splice(template, matches, contents) == SpliceFrom(template, matches, contents, 1, 1)

Empties(n) == [i \in 1..n |-> <<>>]

\* C3: a first download that fails (the GET, the body, or the write of the
\* file) makes the listing empty, leaves no cache file and has every {pict}
\* replaced by the empty string.
C3_FailedDownloadLeavesNoCache ==
    (last.cmd = "config" /\ Remote /\ last.gets = 1
        /\ last.failed \in {"fetch", "open", "write"}) =>
            /\ last.arr = <<>>
            /\ ~cacheFile.exists
            /\ last.ret.text =
                    Splice(config.template, last.matches, Empties(Len(last.matches)))

\* C6: the reply is the template with the i-th occurrence of {pict} replaced,
\* where it stands, by the i-th content, all other text kept.
C6_PositionalSubstitution ==
    last.cmd = "config" =>
        last.ret.text = Splice(config.template, last.matches, last.contents)

\* C8: whatever fails, the configured command returns a string; an occurrence
\* whose candidate could not be listed, fetched or read is replaced by the
\* empty string and the other occurrences keep their own images in place.
C8_FailuresSubstituteEmptyOnly ==
    /\ \A p \in Procs : pc[p] # "error"
    /\ (last.cmd = "config" /\ \E i \in 1..Len(last.contents) : last.contents[i] = <<>>) =>
            /\ last.ret.kind = "text"
            /\ last.ret.text = Splice(config.template, last.matches, last.contents)

====
